---- MODULE Spec2Model ----
(***************************************************************************)
(* Model of desktop/src/backends/navigator.rs: the TcpSocket transport     *)
(* (send / poll / is_connected, process_next_message), the task hand-off   *)
(* of ExternalNavigatorBackend::spawn_future, and                          *)
(* ExternalNavigatorBackend::fetch with the deferred computation it        *)
(* returns, ExternalNavigatorBackend::navigate_to_url, and                 *)
(* ExternalNavigatorBackend::pre_process_url.                              *)
(*                                                                         *)
(* The parts share no state in the source beyond the backend's options, so *)
(* each has its own specification over the module's variables: SpecSocket, *)
(* SpecSched, SpecFetch, SpecNavigate and SpecUpgrade.                     *)
(***************************************************************************)
EXTENDS Integers, Sequences, FiniteSets, TLC

VARIABLES
    \* ---- TcpSocket (navigator.rs 321-325) ----
    stream,            \* Option<TcpStream>: None or Some(handle)
    pending_write,     \* Vec<u8>
    pending_read,      \* VecDeque<u8>
    \* ---- the peer and the kernel side of the TcpStream ----
    wire_in,           \* bytes the peer has sent that no read has taken yet
    wire_out,          \* bytes the stream has accepted from write()
    \* ---- history of the calls made on the socket ----
    messages,          \* the messages the peer has framed onto wire_in, in order
    received,          \* the messages poll() has returned (its Some results), in order
    sent,              \* the payloads of the send() calls made while Connected, in order
    last_poll,         \* the most recent poll(): what it did and returned
    \* ---- ExternalNavigatorBackend::spawn_future (navigator.rs 27-33, 298-306) ----
    channel,           \* the mpsc queue behind Sender<OwnedFuture>: tasks not yet received
    receiver_alive,    \* whether the Receiver end of the channel still exists
    event_loop_alive,  \* whether the winit event loop behind EventLoopProxy still runs
    sched_log,         \* the steps spawn_future calls have taken, in order
    submitted,         \* tasks handed to spawn_future, in call order
    driven,            \* tasks the executor has taken from the channel and run
    panicked,          \* a panic has unwound out of an operation
    \* ---- ExternalNavigatorBackend::fetch (navigator.rs 155-289) ----
    client,            \* Option<Rc<HttpClient>>
    upgrade_to_https,  \* bool
    sandbox,           \* cfg!(feature = "sandbox") of the build
    futures,           \* the deferred computations fetch has returned, in creation order,
                       \* each with its position, its result and the I/O it has performed
    \* ---- ExternalNavigatorBackend::navigate_to_url (navigator.rs 80-153) ----
    open_url_mode,     \* OpenURLMode: "Allow", "Confirm" or "Deny"
    navigations,       \* the navigate_to_url calls made, in order, each with the dialog
                       \* it showed and the launcher call it made
    \* ---- ExternalNavigatorBackend::pre_process_url (navigator.rs 308-313) ----
    url_original,      \* a URL as it was before pre_process_url was applied to it
    url_current,       \* the same URL after the applications made so far
    applications       \* how many times pre_process_url has been applied to it

socketVars ==
    <<stream, pending_write, pending_read, wire_in, wire_out, messages, received,
      sent, last_poll>>

schedVars ==
    <<channel, receiver_alive, event_loop_alive, sched_log, submitted, driven, panicked>>

fetchVars ==
    <<client, upgrade_to_https, sandbox, futures>>

navVars ==
    <<open_url_mode, navigations>>

urlVars ==
    <<url_original, url_current, applications>>

vars ==
    <<socketVars, schedVars, fetchVars, navVars, urlVars>>

(***************************************************************************)
(* Option<T>                                                               *)
(***************************************************************************)
None ==
    <<>>

Some(x) ==
    <<x>>

Min(a, b) ==
    IF a <= b THEN a ELSE b

IsPrefix(s, t) ==
    Len(s) <= Len(t) /\ SubSeq(t, 1, Len(s)) = s

\* the concatenation of a sequence of sequences
RECURSIVE Flatten(_)
Flatten(ss) ==
    IF ss = <<>> THEN <<>> ELSE Head(ss) \o Flatten(Tail(ss))

(***************************************************************************)
(* Bounds of the model                                                     *)
(***************************************************************************)
\* number of messages the peer frames onto the connection
MaxMessages ==
    3

\* number of send() calls made on a Connected socket
MaxSends ==
    2

\* size of the stack buffer of one read (let mut buffer = [0; 2048])
ReadBufferSize ==
    2048

\* message contents the peer chooses from (no zero byte inside a message)
PeerMessages ==
    {<<>>, <<1, 2>>}

\* the payload the caller hands to its k-th send(); framing is the caller's business:
\* odd calls send one byte, even calls a byte and a terminator, and the first byte
\* tells the calls apart
SendPayload(k) ==
    IF k % 2 = 1 THEN <<k>> ELSE <<k, 0>>

\* the payloads the next send() chooses from
SendPayloads ==
    {SendPayload(Len(sent) + 1)}

(***************************************************************************)
(* process_next_message (navigator.rs 394-402)                             *)
(***************************************************************************)
HasZero(buf) ==
    \E i \in 1..Len(buf) : buf[i] = 0

\* position of the first zero byte (iter().enumerate().find(|b| b == 0)), 1-based
FirstZero(buf) ==
    CHOOSE i \in 1..Len(buf) : buf[i] = 0 /\ \A j \in 1..(i - 1) : buf[j] # 0

\* a mutation: the separator is left in the buffer
process_next_message_keep_separator(buf) ==
    IF HasZero(buf)
    THEN [ret |-> Some(SubSeq(buf, 1, FirstZero(buf) - 1)),
          pending_read |-> SubSeq(buf, FirstZero(buf), Len(buf))]
    ELSE [ret |-> None, pending_read |-> buf]

\* a mutation: everything up to the last separator is taken as one message
process_next_message_greedy(buf) ==
    IF HasZero(buf)
    THEN LET last == CHOOSE i \in 1..Len(buf) :
                        buf[i] = 0 /\ \A j \in (i + 1)..Len(buf) : buf[j] # 0
         IN [ret |-> Some(SubSeq(buf, 1, last - 1)),
             pending_read |-> SubSeq(buf, last + 1, Len(buf))]
    ELSE [ret |-> None, pending_read |-> buf]

\* returns the Option<Vec<u8>> and the buffer as the call leaves it
process_next_message(buf) ==
    IF HasZero(buf)
    THEN [ret |-> Some(SubSeq(buf, 1, FirstZero(buf) - 1)),
          pending_read |-> SubSeq(buf, FirstZero(buf) + 1, Len(buf))]
    ELSE [ret |-> None, pending_read |-> buf]

(***************************************************************************)
(* Outcomes of the two system calls poll() makes                           *)
(***************************************************************************)
\* stream.write(&pending_write): WouldBlock, another error, or Ok(n), n <= len
WriteOutcomes(buf) ==
    {[kind |-> "WouldBlock", n |-> 0], [kind |-> "Err", n |-> 0]}
        \cup {[kind |-> "Ok", n |-> k] : k \in 0..Len(buf)}

\* stream.read(&mut buffer): WouldBlock, another error, or Ok(n) with the next n
\* bytes of the connection, n <= the buffer's size; Ok(0) is the peer's close
ReadOutcomes(wire) ==
    {[kind |-> "WouldBlock", data |-> <<>>], [kind |-> "Err", data |-> <<>>]}
        \cup {[kind |-> "Ok", data |-> SubSeq(wire, 1, k)] :
                 k \in 0..Min(Len(wire), ReadBufferSize)}

NoWrite ==
    [kind |-> "none", n |-> 0]

NoRead ==
    [kind |-> "none", data |-> <<>>]

(***************************************************************************)
(* TcpSocket::poll (navigator.rs 355-391) as a function of the socket and  *)
(* of the outcomes w, r the stream gives to the write and the read.        *)
(* Result: the socket's fields after the call, the returned Option, and    *)
(* the system calls made (write, read: "none" when the call was not made). *)
(***************************************************************************)
PollResult(st, pw, pr, ret, w, r) ==
    [stream |-> st, pending_write |-> pw, pending_read |-> pr, ret |-> ret,
     write |-> w, read |-> r]

\* a mutation: a closed socket still hands out what is buffered
poll_drains_when_closed(self, w, r) ==
    LET m == process_next_message(self.pending_read)
    IN PollResult(self.stream, self.pending_write, m.pending_read, m.ret, NoWrite, NoRead)

poll_closed(self, w, r) ==
    PollResult(None, self.pending_write, self.pending_read, None, NoWrite, NoRead)

\* a mutation: the buffer is not searched again after the read
poll_read_extracts_once(self, pw, wdone, r) ==
    LET first == process_next_message(self.pending_read)
    IN IF first.ret # None
       THEN PollResult(self.stream, pw, first.pending_read, first.ret, wdone, NoRead)
       ELSE IF r.kind = "WouldBlock"
       THEN PollResult(self.stream, pw, self.pending_read, None, wdone, r)
       ELSE IF r.kind = "Err" \/ Len(r.data) = 0
       THEN PollResult(None, pw, self.pending_read, None, wdone, r)
       ELSE PollResult(self.stream, pw, self.pending_read \o r.data, None, wdone, r)

\* a mutation: when the peer closes, the bytes buffered so far are handed out
poll_read_flushes_at_close(self, pw, wdone, r) ==
    LET first == process_next_message(self.pending_read)
    IN IF first.ret # None
       THEN PollResult(self.stream, pw, first.pending_read, first.ret, wdone, NoRead)
       ELSE IF r.kind = "WouldBlock"
       THEN PollResult(self.stream, pw, self.pending_read, None, wdone, r)
       ELSE IF r.kind = "Err" \/ Len(r.data) = 0
       THEN IF self.pending_read # <<>>
            THEN PollResult(None, pw, <<>>, Some(self.pending_read), wdone, r)
            ELSE PollResult(None, pw, self.pending_read, None, wdone, r)
       ELSE LET m == process_next_message(self.pending_read \o r.data)
            IN PollResult(self.stream, pw, m.pending_read, m.ret, wdone, r)

\* a mutation: the read is made even when the buffer already holds a message
poll_read_reads_anyway(self, pw, wdone, r) ==
    LET first == process_next_message(self.pending_read)
    IN IF first.ret # None
       THEN IF r.kind = "Ok"
            THEN PollResult(self.stream, pw, first.pending_read \o r.data, first.ret,
                            wdone, r)
            ELSE PollResult(self.stream, pw, first.pending_read, first.ret, wdone, r)
       ELSE IF r.kind = "WouldBlock"
       THEN PollResult(self.stream, pw, self.pending_read, None, wdone, r)
       ELSE IF r.kind = "Err" \/ Len(r.data) = 0
       THEN PollResult(None, pw, self.pending_read, None, wdone, r)
       ELSE LET m == process_next_message(self.pending_read \o r.data)
            IN PollResult(self.stream, pw, m.pending_read, m.ret, wdone, r)

\* a mutation: a read that would block is taken for a failure
poll_read_would_block_closes(self, pw, wdone, r) ==
    LET first == process_next_message(self.pending_read)
    IN IF first.ret # None
       THEN PollResult(self.stream, pw, first.pending_read, first.ret, wdone, NoRead)
       ELSE IF r.kind = "WouldBlock" \/ r.kind = "Err" \/ Len(r.data) = 0
       THEN PollResult(None, pw, self.pending_read, None, wdone, r)
       ELSE LET m == process_next_message(self.pending_read \o r.data)
            IN PollResult(self.stream, pw, m.pending_read, m.ret, wdone, r)

\* lines 370-387: extract, else one read and extract again
poll_read(self, pw, wdone, r) ==
    LET first == process_next_message(self.pending_read)
    IN IF first.ret # None
       THEN PollResult(self.stream, pw, first.pending_read, first.ret, wdone, NoRead)
       ELSE IF r.kind = "WouldBlock"
       THEN PollResult(self.stream, pw, self.pending_read, None, wdone, r)
       ELSE IF r.kind = "Err" \/ Len(r.data) = 0
       THEN PollResult(None, pw, self.pending_read, None, wdone, r)
       ELSE LET m == process_next_message(self.pending_read \o r.data)
            IN PollResult(self.stream, pw, m.pending_read, m.ret, wdone, r)

\* a mutation: a successful write clears the whole pending buffer
poll_open_clears_on_write(self, w, r) ==
    IF self.pending_write # <<>>
    THEN IF w.kind = "WouldBlock"
         THEN poll_read(self, self.pending_write, w, r)
         ELSE IF w.kind = "Err" \/ w.n = 0
         THEN PollResult(None, self.pending_write, self.pending_read, None, w, NoRead)
         ELSE poll_read(self, <<>>, w, r)
    ELSE poll_read(self, self.pending_write, NoWrite, r)

\* a mutation: a buffered message is handed out before the write is tried
poll_open_extracts_first(self, w, r) ==
    LET first == process_next_message(self.pending_read)
    IN IF first.ret # None
       THEN PollResult(self.stream, self.pending_write, first.pending_read, first.ret,
                       NoWrite, NoRead)
       ELSE IF self.pending_write # <<>>
       THEN IF w.kind = "WouldBlock"
            THEN poll_read(self, self.pending_write, w, r)
            ELSE IF w.kind = "Err" \/ w.n = 0
            THEN PollResult(None, self.pending_write, self.pending_read, None, w, NoRead)
            ELSE poll_read(self,
                           SubSeq(self.pending_write, w.n + 1, Len(self.pending_write)),
                           w, r)
       ELSE poll_read(self, self.pending_write, NoWrite, r)

\* lines 357-368: one write of the whole pending buffer
poll_open(self, w, r) ==
    IF self.pending_write # <<>>
    THEN IF w.kind = "WouldBlock"
         THEN poll_read(self, self.pending_write, w, r)
         ELSE IF w.kind = "Err" \/ w.n = 0
         THEN PollResult(None, self.pending_write, self.pending_read, None, w, NoRead)
         ELSE poll_read(self,
                        SubSeq(self.pending_write, w.n + 1, Len(self.pending_write)),
                        w, r)
    ELSE poll_read(self, self.pending_write, NoWrite, r)

poll(self, w, r) ==
    IF self.stream # None
    THEN poll_open(self, w, r)
    ELSE poll_closed(self, w, r)

(***************************************************************************)
(* The socket's operations                                                 *)
(***************************************************************************)
Self ==
    [stream |-> stream, pending_write |-> pending_write, pending_read |-> pending_read]

\* last_poll: the most recent poll() made on the socket
\*   called         a poll() has been made
\*   was_connected  the socket had a stream when the call was made
\*   had_message    the read buffer held a zero byte when the call was made
\*   ret            the Option<Vec<u8>> the call returned
\*   write, read    the system calls the call made and their outcomes
NeverPolled ==
    [called |-> FALSE, was_connected |-> FALSE, had_message |-> FALSE,
     ret |-> None, write |-> NoWrite, read |-> NoRead]

\* TcpSocket::connect (navigator.rs 328-341): a failed connect or a failed
\* set_nonblocking leaves the instance without a stream from the start
SocketInit ==
    /\ stream \in {None, Some("TcpStream")}
    /\ pending_write = <<>>
    /\ pending_read = <<>>
    /\ wire_in = <<>>
    /\ wire_out = <<>>
    /\ messages = <<>>
    /\ received = <<>>
    /\ sent = <<>>
    /\ last_poll = NeverPolled

\* TcpSocket::is_connected (navigator.rs 345-347): the value returned
is_connected_ret(self) ==
    Some(self.stream # None)

\* TcpSocket::is_connected (navigator.rs 345-347): &self, nothing is written
is_connected ==
    /\ is_connected_ret(Self) \in {Some(TRUE), Some(FALSE)}
    /\ UNCHANGED vars

\* a mutation: send frames the payload itself
send_connected_adds_terminator(buf) ==
    /\ stream # None
    /\ Len(sent) < MaxSends
    /\ pending_write' = pending_write \o buf \o <<0>>
    /\ sent' = Append(sent, buf)
    /\ UNCHANGED <<stream, pending_read, wire_in, wire_out, messages, received,
                   last_poll, schedVars, fetchVars, navVars, urlVars>>

\* TcpSocket::send (navigator.rs 349-353), on a socket with a stream
send_connected(buf) ==
    /\ stream # None
    /\ Len(sent) < MaxSends
    /\ pending_write' = pending_write \o buf
    /\ sent' = Append(sent, buf)
    /\ UNCHANGED <<stream, pending_read, wire_in, wire_out, messages, received,
                   last_poll, schedVars, fetchVars, navVars, urlVars>>

\* TcpSocket::send (navigator.rs 349-353), on a socket without a stream
send_disconnected(buf) ==
    /\ stream = None
    /\ UNCHANGED vars

send ==
    \E buf \in SendPayloads : send_connected(buf) \/ send_disconnected(buf)

\* TcpSocket::poll (navigator.rs 355-391) with the stream's answers w and r
poll_with(w, r) ==
    LET res == poll(Self, w, r)
    IN /\ stream' = res.stream
       /\ pending_write' = res.pending_write
       /\ pending_read' = res.pending_read
       /\ wire_out' = IF res.write.kind = "Ok"
                      THEN wire_out \o SubSeq(pending_write, 1, res.write.n)
                      ELSE wire_out
       /\ wire_in' = IF res.read.kind = "Ok"
                     THEN SubSeq(wire_in, Len(res.read.data) + 1, Len(wire_in))
                     ELSE wire_in
       /\ received' = IF res.ret # None THEN Append(received, res.ret[1]) ELSE received
       /\ last_poll' = [called |-> TRUE,
                        was_connected |-> stream # None,
                        had_message |-> HasZero(pending_read),
                        ret |-> res.ret,
                        write |-> res.write,
                        read |-> res.read]
       /\ UNCHANGED <<messages, sent, schedVars, fetchVars, navVars, urlVars>>

\* the answers that make a difference: a call poll() does not make has no outcome
WritesOf(self) ==
    IF poll(self, [kind |-> "WouldBlock", n |-> 0],
                  [kind |-> "WouldBlock", data |-> <<>>]).write = NoWrite
    THEN {NoWrite}
    ELSE WriteOutcomes(self.pending_write)

ReadsOf(self, w, wire) ==
    IF poll(self, w, [kind |-> "WouldBlock", data |-> <<>>]).read = NoRead
    THEN {NoRead}
    ELSE ReadOutcomes(wire)

TcpSocket_poll ==
    \E w \in WritesOf(Self) : \E r \in ReadsOf(Self, w, wire_in) : poll_with(w, r)

\* the peer frames one more message onto the connection: its bytes, then one zero byte
PeerSend ==
    /\ stream # None
    /\ Len(messages) < MaxMessages
    /\ \E m \in PeerMessages :
          /\ wire_in' = wire_in \o m \o <<0>>
          /\ messages' = Append(messages, m)
    /\ UNCHANGED <<stream, pending_write, pending_read, wire_out, received, sent,
                   last_poll, schedVars, fetchVars, navVars, urlVars>>

NextSocket ==
    \/ is_connected
    \/ send
    \/ TcpSocket_poll
    \/ PeerSend

(***************************************************************************)
(* Properties of the socket transport                                      *)
(***************************************************************************)
\* the stream's bytes for a list of messages: each message, then one zero byte
RECURSIVE Framed(_)
Framed(ms) ==
    IF ms = <<>> THEN <<>> ELSE Head(ms) \o <<0>> \o Framed(Tail(ms))

\* a poll() that met a fatal outcome of its write or of its read
FatalWrite(c) ==
    c.write.kind = "Err" \/ (c.write.kind = "Ok" /\ c.write.n = 0)

FatalRead(c) ==
    c.read.kind = "Err" \/ (c.read.kind = "Ok" /\ c.read.data = <<>>)

\* C1: closure finality. A poll() that meets a fatal outcome (write error, zero-byte
\* write, read error, zero-byte read) leaves the instance without a stream, and an
\* instance without a stream never gets one back: from then on no step (send, poll,
\* is_connected) restores the stream, no poll() returns a message, and is_connected()
\* answers Some(false).
C1_ClosureFinality ==
    [][/\ (FatalWrite(last_poll') \/ FatalRead(last_poll')) => stream' = None
       /\ stream = None
            => /\ stream' = None
               /\ received' = received
               /\ last_poll'.ret = None
               /\ is_connected_ret(Self) = Some(FALSE)
               /\ is_connected_ret(Self') = Some(FALSE)]_vars

\* C1 witness: a poll() made on an instance that had lost its stream while a complete
\* message was buffered; it returned nothing and the instance is still Disconnected
C1_Witness ==
    /\ stream = None
    /\ last_poll.called
    /\ ~last_poll.was_connected
    /\ last_poll.had_message
    /\ last_poll.ret = None
    /\ is_connected_ret(Self) = Some(FALSE)
    /\ sent # <<>>

\* C2: framing correctness. The messages poll() has returned are exactly the first
\* messages the peer framed, in order (none lost, duplicated, merged or split), whatever
\* the chunks the reads delivered: the returned messages framed again, followed by the
\* read buffer and by the bytes not yet read, are the peer's byte stream; no returned
\* message holds a zero byte; and once every byte is read and the buffer holds no
\* terminator, every message of the peer has been returned.
C2_FramingCorrectness ==
    /\ Framed(received) \o pending_read \o wire_in = Framed(messages)
    /\ \A i \in 1..Len(received) : ~HasZero(received[i])
    /\ IsPrefix(received, messages)
    /\ (wire_in = <<>> /\ ~HasZero(pending_read)) => received = messages

\* C2 witness: all messages of the peer were returned, among them an empty one and one
\* of two bytes, and the last read delivered a chunk of a single terminator
C2_Witness ==
    /\ received = messages
    /\ Len(messages) >= 2
    /\ \E i \in 1..Len(messages) : messages[i] = <<>>
    /\ \E i \in 1..Len(messages) : Len(messages[i]) >= 2
    /\ last_poll.read.kind = "Ok"
    /\ last_poll.read.data = <<0>>

\* C3: one message per poll(). No call returns more than one message; and a poll() on a
\* socket that is Connected and stays Connected, made when the read buffer holds a
\* terminator, reads nothing, returns exactly the bytes before the first terminator,
\* removes them and that terminator from the buffer and leaves every later byte of the
\* buffer (the other messages, trailing partial bytes) unchanged and in order. The same
\* holds of the buffer as extended by the one read of a poll() that found no terminator:
\* at most the first message leaves it.
C3_OneMessagePerPoll ==
    [][/\ Len(received') <= Len(received) + 1
       /\ (TcpSocket_poll /\ stream # None /\ stream' # None)
            => \E n \in 0..Len(wire_in) :
                  LET buf == pending_read \o SubSeq(wire_in, 1, n)
                  IN /\ HasZero(pending_read) => n = 0
                     /\ wire_in' = SubSeq(wire_in, n + 1, Len(wire_in))
                     /\ IF HasZero(buf)
                        THEN \E i \in 1..Len(buf) :
                                /\ buf[i] = 0
                                /\ \A j \in 1..(i - 1) : buf[j] # 0
                                /\ received' = Append(received, SubSeq(buf, 1, i - 1))
                                /\ pending_read' = SubSeq(buf, i + 1, Len(buf))
                        ELSE /\ received' = received
                             /\ pending_read' = buf]_vars

\* C3 witness: a poll() returned one message of a backlog and left a complete message
\* in the buffer for the next call
C3_Witness ==
    /\ stream # None
    /\ last_poll.was_connected
    /\ last_poll.had_message
    /\ last_poll.ret # None
    /\ HasZero(pending_read)

\* C11: frame effect of send(). A send(bytes) made on a Connected instance appends
\* exactly the given bytes, and no terminator, to the end of the pending-write buffer; a
\* send() made on a Disconnected instance leaves the pending-write buffer as it is. In
\* both cases the read buffer and the connection state are unchanged, and no byte is
\* written to or read from the stream.
C11_SendFrameEffect ==
    [][send
         => /\ stream' = stream
            /\ pending_read' = pending_read
            /\ wire_in' = wire_in
            /\ wire_out' = wire_out
            /\ received' = received
            /\ IF stream # None
               THEN \E buf \in SendPayloads :
                       /\ sent' = Append(sent, buf)
                       /\ pending_write' = pending_write \o buf
               ELSE /\ pending_write' = pending_write
                    /\ sent' = sent]_vars

\* C11 witness: a send() of a payload without a terminator was made on a Connected
\* instance after a poll(), and the pending-write buffer holds exactly that payload
C11_Witness ==
    /\ stream # None
    /\ last_poll.called
    /\ sent = <<(<<1>>)>>
    /\ pending_write = <<1>>
    /\ wire_out = <<>>

\* C14: write-first ordering of poll(). A poll() made on a Connected instance whose
\* pending-write buffer is not empty calls write on the stream, and does so before it
\* looks at the read buffer: when that write fails with an error other than would-block
\* or reports zero bytes, the instance is Disconnected, the call returns no message, the
\* read buffer is as it was (nothing was extracted, even if it held a complete message),
\* no read was made, and the pending-write buffer keeps its bytes.
C14_WriteFirst ==
    [][(TcpSocket_poll /\ stream # None /\ pending_write # <<>>)
         => /\ last_poll'.write.kind # "none"
            /\ FatalWrite(last_poll')
                 => /\ stream' = None
                    /\ last_poll'.ret = None
                    /\ received' = received
                    /\ pending_read' = pending_read
                    /\ last_poll'.read = NoRead
                    /\ wire_in' = wire_in
                    /\ pending_write' = pending_write
                    /\ wire_out' = wire_out]_vars

\* C14 witness: the write of a poll() failed while the read buffer held a complete
\* message; the call returned nothing, the message is still in the buffer and the
\* instance is Disconnected
C14_Witness ==
    /\ last_poll.called
    /\ last_poll.was_connected
    /\ FatalWrite(last_poll)
    /\ last_poll.had_message
    /\ last_poll.ret = None
    /\ last_poll.read = NoRead
    /\ HasZero(pending_read)
    /\ stream = None

\* C15: would-block is never fatal. A poll() whose write would block leaves the
\* pending-write buffer and the stream's accepted bytes as they were and goes on: it
\* returns the buffered message if there is one and makes the read otherwise, and only a
\* failure of that read can leave the instance Disconnected. A poll() whose read would
\* block leaves the instance Connected and the read buffer and the unread bytes as they
\* were, and returns no message. The bytes are tried again: the poll() that follows a
\* blocked write on a Connected instance calls write again, offering the pending-write
\* buffer from its first byte, and the poll() that follows a blocked read calls read
\* again unless its write fails.
C15_WouldBlockNotFatal ==
    [][TcpSocket_poll
         => /\ last_poll'.write.kind = "WouldBlock"
                 => /\ pending_write' = pending_write
                    /\ wire_out' = wire_out
                    /\ stream' = None => FatalRead(last_poll')
                    /\ IF HasZero(pending_read)
                       THEN last_poll'.ret # None
                       ELSE last_poll'.read.kind # "none"
            /\ last_poll'.read.kind = "WouldBlock"
                 => /\ stream' # None
                    /\ pending_read' = pending_read
                    /\ wire_in' = wire_in
                    /\ last_poll'.ret = None
                    /\ received' = received
            /\ (last_poll.write.kind = "WouldBlock" /\ stream # None)
                 => /\ last_poll'.write.kind # "none"
                    /\ last_poll'.write.kind = "Ok"
                         => wire_out' = wire_out
                                \o SubSeq(pending_write, 1, last_poll'.write.n)
            /\ (last_poll.read.kind = "WouldBlock" /\ stream # None)
                 => (last_poll'.read.kind # "none" \/ FatalWrite(last_poll'))]_vars

\* C15 witness: both the write and the read of a poll() would block; the instance is
\* Connected, the payload is still pending and the peer's bytes are still unread
C15_Witness ==
    /\ last_poll.write.kind = "WouldBlock"
    /\ last_poll.read.kind = "WouldBlock"
    /\ last_poll.ret = None
    /\ stream # None
    /\ pending_write = <<1, 2, 0>>
    /\ wire_out = <<>>
    /\ wire_in # <<>>

C18_WriteStreamIntegrity ==
    wire_out \o pending_write = Flatten(sent)

\* C18 witness: two payloads were sent; the stream has accepted the first and, in a
\* partial write of one byte, the first byte of the second, whose last byte is pending
C18_Witness ==
    /\ sent = <<(<<1>>), (<<2, 0>>)>>
    /\ wire_out = <<1, 2>>
    /\ pending_write = <<0>>
    /\ last_poll.write.kind = "Ok"
    /\ last_poll.write.n = 1

\* C19: no withheld message. Whenever the most recent poll() returned no message and
\* the instance is Connected, the read buffer holds no zero byte: a poll() on a Connected
\* instance whose write did not fail returns a message if the buffer, or the buffer as
\* extended by its read, holds a complete one. And no message poll() has returned holds
\* a zero byte.
C19_NoWithheldMessage ==
    /\ (last_poll.called /\ last_poll.ret = None /\ stream # None)
         => ~HasZero(pending_read)
    /\ last_poll.ret # None => ~HasZero(last_poll.ret[1])
    /\ \A i \in 1..Len(received) : ~HasZero(received[i])

\* C19 witness: the read of a poll() completed a message begun by earlier reads, and
\* the call returned it
C19_Witness ==
    /\ stream # None
    /\ ~last_poll.had_message
    /\ last_poll.read.kind = "Ok"
    /\ last_poll.read.data = <<2, 0>>
    /\ last_poll.ret = Some(<<1, 2>>)

\* C20: read-side closure and loss at disconnect. A poll() whose read fails with an
\* error other than would-block, or delivers zero bytes, leaves the instance
\* Disconnected and returns no message; and on a Disconnected instance every step
\* leaves the read buffer and the list of returned messages as they are, so the bytes
\* that were buffered when the stream was lost are never returned.
C20_ReadClosureLosesBuffer ==
    [][/\ (TcpSocket_poll /\ FatalRead(last_poll'))
            => /\ stream' = None
               /\ last_poll'.ret = None
               /\ received' = received
               /\ pending_read' = pending_read
       /\ stream = None
            => /\ pending_read' = pending_read
               /\ received' = received
               /\ last_poll'.ret = None]_vars

\* C20 witness: the peer closed in the middle of a message; a later poll() on the
\* Disconnected instance returned nothing and the partial bytes are still buffered
C20_Witness ==
    /\ stream = None
    /\ last_poll.called
    /\ ~last_poll.was_connected
    /\ last_poll.ret = None
    /\ pending_read # <<>>
    /\ ~HasZero(pending_read)
    /\ received # messages

(***************************************************************************)
(* ExternalNavigatorBackend::spawn_future (navigator.rs 298-306) and the   *)
(* two collaborators it talks to: the Receiver of `channel`, owned by the  *)
(* host's executor, and the host's event loop behind `event_loop`.         *)
(***************************************************************************)
\* number of spawn_future calls
MaxSpawns ==
    4

\* entries of sched_log
SendStep(task, ok) ==
    [op |-> "channel.send", task |-> task, ok |-> ok]

SendEventStep(task, ok) ==
    [op |-> "event_loop.send_event", task |-> task, ok |-> ok]

SchedInit ==
    /\ channel = <<>>
    /\ receiver_alive = TRUE
    /\ event_loop_alive = TRUE
    /\ sched_log = <<>>
    /\ submitted = <<>>
    /\ driven = <<>>
    /\ panicked = FALSE

\* line 299 with the Receiver gone: Sender::send returns Err, expect() panics
spawn_future_receiver_gone(task) ==
    /\ ~receiver_alive
    /\ submitted' = Append(submitted, task)
    /\ sched_log' = Append(sched_log, SendStep(task, FALSE))
    /\ panicked' = TRUE
    /\ UNCHANGED <<channel, receiver_alive, event_loop_alive, driven, socketVars, fetchVars,
                   navVars, urlVars>>

\* lines 299-305 with the Receiver there: the task is queued, then the loop is told;
\* EventLoopProxy::send_event fails once the loop has ended, which is only logged
spawn_future_queued(task) ==
    /\ receiver_alive
    /\ submitted' = Append(submitted, task)
    /\ channel' = Append(channel, task)
    /\ sched_log' = sched_log \o <<SendStep(task, TRUE), SendEventStep(task, event_loop_alive)>>
    /\ UNCHANGED <<receiver_alive, event_loop_alive, driven, panicked, socketVars, fetchVars,
                   navVars, urlVars>>

spawn_future ==
    /\ ~panicked
    /\ Len(submitted) < MaxSpawns
    /\ LET task == Len(submitted) + 1
       IN spawn_future_receiver_gone(task) \/ spawn_future_queued(task)

\* the host's executor takes the oldest queued task and runs it
ExecutorRun ==
    /\ ~panicked
    /\ receiver_alive
    /\ event_loop_alive
    /\ channel # <<>>
    /\ driven' = Append(driven, Head(channel))
    /\ channel' = Tail(channel)
    /\ UNCHANGED <<receiver_alive, event_loop_alive, sched_log, submitted, panicked,
                   socketVars, fetchVars,
                   navVars, urlVars>>

\* the host's event loop ends
EventLoopExit ==
    /\ ~panicked
    /\ event_loop_alive
    /\ event_loop_alive' = FALSE
    /\ UNCHANGED <<channel, receiver_alive, sched_log, submitted, driven, panicked,
                   socketVars, fetchVars,
                   navVars, urlVars>>

\* the host drops its executor: the Receiver goes, and the queued tasks with it
ReceiverDrop ==
    /\ ~panicked
    /\ receiver_alive
    /\ receiver_alive' = FALSE
    /\ channel' = <<>>
    /\ UNCHANGED <<event_loop_alive, sched_log, submitted, driven, panicked,
                   socketVars, fetchVars,
                   navVars, urlVars>>

NextSched ==
    \/ spawn_future
    \/ ExecutorRun
    \/ EventLoopExit
    \/ ReceiverDrop

(***************************************************************************)
(* URLs (url::Url) and the requests of the model                           *)
(***************************************************************************)
Url(scheme, host, path, query) ==
    [scheme |-> scheme, host |-> host, path |-> path, query |-> query]

\* Url::to_string / as_str: the serialization, query included when there is one
UrlToString(u) ==
    <<u.scheme, "://", u.host, u.path>>
        \o (IF u.query = None THEN <<>> ELSE <<"?", u.query[1]>>)

\* the directory of the movie, after new() has emptied the last path segment (62-66)
base_url ==
    Url("file", "", "/movies/", None)

\* references a request may carry: a relative reference, an absolute URL, or a string
\* that Url::join rejects
Relative(file, query) ==
    [kind |-> "relative", file |-> file, query |-> query, url |-> base_url]

Absolute(u) ==
    [kind |-> "absolute", file |-> "", query |-> None, url |-> u]

Malformed ==
    [kind |-> "malformed", file |-> "", query |-> None, url |-> base_url]

\* Url::join (base_url.join(url), line 292)
Join(base, ref) ==
    IF ref.kind = "malformed"
    THEN [ok |-> FALSE, url |-> base]
    ELSE IF ref.kind = "absolute"
    THEN [ok |-> TRUE, url |-> ref.url]
    ELSE [ok |-> TRUE, url |-> Url(base.scheme, base.host, base.path \o ref.file, ref.query)]

\* a mutation: every scheme but https is upgraded
pre_process_url_any_scheme(upgrade, url) ==
    IF upgrade /\ url.scheme # "https"
    THEN [url EXCEPT !.scheme = "https"]
    ELSE url

\* ExternalNavigatorBackend::pre_process_url (navigator.rs 308-313)
pre_process_url(upgrade, url) ==
    IF upgrade /\ url.scheme = "http"
    THEN [url EXCEPT !.scheme = "https"]
    ELSE url

\* ExternalNavigatorBackend::resolve_url (navigator.rs 291-296)
resolve_url(upgrade, ref) ==
    LET joined == Join(base_url, ref)
    IN IF joined.ok
       THEN [ok |-> TRUE, url |-> pre_process_url(upgrade, joined.url)]
       ELSE [ok |-> FALSE, url |-> joined.url]

\* Url::to_file_path: a file URL with a host names no local path
to_file_path(u) ==
    IF u.host = "" THEN Some(u.path) ELSE None

\* the files on disk and their contents
FileSystem ==
    [p \in {"/movies/a.swf"} |-> <<7, 8>>]

\* header names and values that HeaderName::from_str / HeaderValue::from_str refuse
BadHeaderNames ==
    {"bad name"}

BadHeaderValues ==
    {"line\nbreak"}

Request(ref, method, headers) ==
    [url |-> ref, method |-> method, headers |-> headers]

Requests ==
    { Request(Relative("a.swf", Some("x=1")), "Get", <<>>),
      Request(Relative("missing.swf", None), "Get", <<>>),
      Request(Absolute(Url("file", "remote", "/movies/a.swf", None)), "Get", <<>>),
      Request(Malformed, "Get", <<>>),
      Request(Absolute(Url("http", "a.test", "/p", None)), "Get", <<<<"accept", "*/*">>>>),
      Request(Absolute(Url("https", "a.test", "/p", None)), "Post", <<<<"bad name", "v">>>>),
      Request(Absolute(Url("https", "a.test", "/p", None)), "Post", <<<<"x-a", "line\nbreak">>>>) }

\* number of fetch calls
MaxFetches ==
    2

(***************************************************************************)
(* Outcomes: SuccessResponse, ErrorResponse                                *)
(***************************************************************************)
SuccessResponse(url, body, status, redirected) ==
    [ok |-> TRUE, url |-> url, body |-> body, status |-> status,
     redirected |-> redirected, error |-> "", detail |-> ""]

\* ErrorResponse { url, error: Error::FetchError(detail) }
FetchError(url, detail) ==
    [ok |-> FALSE, url |-> url, body |-> <<>>, status |-> 0,
     redirected |-> FALSE, error |-> "FetchError", detail |-> detail]

\* ErrorResponse { url, error: Error::HttpNotOk(_, status, redirected) }
HttpNotOk(url, status, redirected) ==
    [ok |-> FALSE, url |-> url, body |-> <<>>, status |-> status,
     redirected |-> redirected, error |-> "HttpNotOk", detail |-> "HTTP status is not ok"]

(***************************************************************************)
(* What the collaborators may answer                                       *)
(***************************************************************************)
\* std::fs::read(path)
FsReadOutcomes(path) ==
    IF path \in DOMAIN FileSystem
    THEN {[ok |-> TRUE, body |-> FileSystem[path], err |-> ""],
          [ok |-> FALSE, body |-> <<>>, err |-> "PermissionDenied"]}
    ELSE {[ok |-> FALSE, body |-> <<>>, err |-> "NotFound"],
          [ok |-> FALSE, body |-> <<>>, err |-> "PermissionDenied"]}

\* where a redirect may lead
ElsewhereUrl ==
    Url("https", "b.test", "/q", None)

\* HttpClient::send_async under RedirectPolicy::Follow (line 58): a transport error, or
\* the final response: its status, the URL it was obtained from (`final`), the
\* effective_uri() the response reports, and whether its body can be read. A response
\* reached over a redirect reports its URL; one reached without a redirect reports the
\* requested URL or none.
HttpOutcomes(requested) ==
    {[ok |-> FALSE, status |-> 0, final |-> requested, effective_uri |-> None,
      body |-> None]}
    \cup
    UNION {{[ok |-> TRUE, status |-> st, final |-> f, effective_uri |-> e, body |-> b] :
               st \in {200, 304, 404}, e \in {None, Some(f)}, b \in {None, Some(<<5>>)}} :
           f \in {requested, ElsewhereUrl}}

HttpAnswers(requested) ==
    {o \in HttpOutcomes(requested) : (o.ok /\ o.final # requested) => o.effective_uri # None}

(***************************************************************************)
(* ExternalNavigatorBackend::fetch (navigator.rs 155-289)                  *)
(***************************************************************************)
\* entries of a future's io: what a step of the future asked of a collaborator, and
\* for a read that failed the kind of its io::Error
FsRead(path, outcome) ==
    [op |-> "fs::read", arg |-> path, ok |-> outcome.ok, err |-> outcome.err]

MessageDialog(path, yes) ==
    [op |-> "MessageDialog::show", arg |-> path, ok |-> yes, err |-> ""]

PickFolder(path) ==
    [op |-> "FileDialog::pick_folder", arg |-> path, ok |-> TRUE, err |-> ""]

SendAsync(url) ==
    [op |-> "HttpClient::send_async", arg |-> UrlToString(url), ok |-> TRUE, err |-> ""]

\* a future: the request and URL it captured, where it stands ("created": returned by
\* fetch and not driven yet; "sent": waiting for the client; "done"), the I/O it has
\* performed, the client's answer it has seen, and its result
Future(request, branch, url, state, io, result) ==
    [request |-> request, branch |-> branch, url |-> url, state |-> state, io |-> io,
     answer |-> None, result |-> result]

\* a mutation: the file is read while fetch runs, before the future is returned
fetch_reads_eagerly(upgrade, request) ==
    LET resolved == resolve_url(upgrade, request.url)
    IN IF ~resolved.ok
       THEN Future(request, "async_return", resolved.url, "created", <<>>, None)
       ELSE IF resolved.url.scheme = "file"
       THEN Future(request, "file", resolved.url, "created",
                   <<FsRead(resolved.url.path, [ok |-> TRUE, err |-> ""])>>, None)
       ELSE Future(request, "http", resolved.url, "created", <<>>, None)

\* lines 155-167, 219: the call itself resolves the URL, clones the client and returns
\* one of three futures; none of them has run when fetch returns
fetch_future(upgrade, request) ==
    LET resolved == resolve_url(upgrade, request.url)
    IN IF ~resolved.ok
       THEN Future(request, "async_return", resolved.url, "created", <<>>, None)
       ELSE IF resolved.url.scheme = "file"
       THEN Future(request, "file", resolved.url, "created", <<>>, None)
       ELSE Future(request, "http", resolved.url, "created", <<>>, None)

\* line 160: async_return(create_fetch_error(request.url(), e)), when driven; the error
\* carries the request's own string, which stands here as the reference's kind
drive_async_return(fut) ==
    [fut EXCEPT !.state = "done",
                !.result = Some(FetchError(<<fut.request.url.kind>>, "ParseError"))]

\* a mutation: the response carries the URL the file was read from, query stripped
drive_file_reports_stripped_url(fut, sbx, r1, yes, r2) ==
    LET stripped == [fut.url EXCEPT !.query = None]
        path == to_file_path(stripped)
    IN IF path = None
       THEN [fut EXCEPT !.state = "done",
                        !.result = Some(FetchError(UrlToString(stripped),
                                                   "Unable to create path out of URL"))]
       ELSE [fut EXCEPT
                !.state = "done",
                !.io = <<FsRead(path[1], r1)>>,
                !.result =
                    IF r1.ok
                    THEN Some(SuccessResponse(UrlToString(stripped), r1.body, 0, FALSE))
                    ELSE Some(FetchError(UrlToString(stripped), r1.err))]

\* a mutation: the user is asked after a failure of any kind
drive_file_asks_on_any_error(fut, sbx, r1, yes, r2) ==
    LET response_url == fut.url
        stripped == [fut.url EXCEPT !.query = None]
        path == to_file_path(stripped)
    IN IF path = None
       THEN [fut EXCEPT !.state = "done",
                        !.result = Some(FetchError(UrlToString(response_url),
                                                   "Unable to create path out of URL"))]
       ELSE LET p == path[1]
                asked == ~r1.ok /\ sbx
                retried == asked /\ yes
                body == IF r1.ok THEN r1 ELSE IF retried THEN r2 ELSE r1
                io == <<FsRead(p, r1)>>
                        \o (IF asked THEN <<MessageDialog(p, yes)>> ELSE <<>>)
                        \o (IF retried THEN <<PickFolder(p), FsRead(p, r2)>> ELSE <<>>)
            IN [fut EXCEPT
                    !.state = "done",
                    !.io = io,
                    !.result =
                        IF body.ok
                        THEN Some(SuccessResponse(UrlToString(response_url), body.body,
                                                  0, FALSE))
                        ELSE Some(FetchError(UrlToString(response_url), body.err))]

\* lines 167-218: the file future runs to its end the first time it is driven.
\* r1: the first fs::read; yes: the answer to the dialog; r2: the read after the grant
drive_file(fut, sbx, r1, yes, r2) ==
    LET response_url == fut.url
        stripped == [fut.url EXCEPT !.query = None]
        path == to_file_path(stripped)
    IN IF path = None
       THEN [fut EXCEPT !.state = "done",
                        !.result = Some(FetchError(UrlToString(response_url),
                                                   "Unable to create path out of URL"))]
       ELSE LET p == path[1]
                asked == ~r1.ok /\ sbx /\ r1.err = "PermissionDenied"
                retried == asked /\ yes
                body == IF r1.ok THEN r1 ELSE IF retried THEN r2 ELSE r1
                io == <<FsRead(p, r1)>>
                        \o (IF asked THEN <<MessageDialog(p, yes)>> ELSE <<>>)
                        \o (IF retried THEN <<PickFolder(p), FsRead(p, r2)>> ELSE <<>>)
            IN [fut EXCEPT
                    !.state = "done",
                    !.io = io,
                    !.result =
                        IF body.ok
                        THEN Some(SuccessResponse(UrlToString(response_url), body.body,
                                                  0, FALSE))
                        ELSE Some(FetchError(UrlToString(response_url), body.err))]

\* the first header (in order) that cannot be encoded, if any
BadHeader(headers) ==
    \E i \in 1..Len(headers) :
        headers[i][1] \in BadHeaderNames \/ headers[i][2] \in BadHeaderValues

\* a mutation: the request is sent before its headers are checked
drive_http_sends_first(fut, cl) ==
    IF cl = None
    THEN [fut EXCEPT !.state = "done",
                     !.result = Some(FetchError(UrlToString(fut.url), "Network unavailable"))]
    ELSE IF BadHeader(fut.request.headers)
    THEN [fut EXCEPT !.state = "done",
                     !.io = <<SendAsync(fut.url)>>,
                     !.result = Some(FetchError(UrlToString(fut.url), "invalid header"))]
    ELSE [fut EXCEPT !.state = "sent", !.io = <<SendAsync(fut.url)>>]

\* lines 219-250: the http future, driven for the first time, up to send_async
drive_http(fut, cl) ==
    IF cl = None
    THEN [fut EXCEPT !.state = "done",
                     !.result = Some(FetchError(UrlToString(fut.url), "Network unavailable"))]
    ELSE IF BadHeader(fut.request.headers)
    THEN [fut EXCEPT !.state = "done",
                     !.result = Some(FetchError(UrlToString(fut.url), "invalid header"))]
    ELSE [fut EXCEPT !.state = "sent", !.io = <<SendAsync(fut.url)>>]

\* a mutation: redirection statuses pass as well
is_success_or_redirection(status) ==
    200 <= status /\ status < 400

\* StatusCode::is_success
is_success(status) ==
    200 <= status /\ status < 300

\* lines 250-286: the http future, driven after the client has answered with `o`
complete_http(fut, o) ==
    LET done == [fut EXCEPT !.state = "done", !.answer = Some(o)]
    IN IF ~o.ok
       THEN [done EXCEPT !.result = Some(FetchError(UrlToString(fut.url), "transport"))]
       ELSE LET url == IF o.effective_uri # None
                       THEN UrlToString(o.effective_uri[1])
                       ELSE UrlToString(fut.url)
                redirected == o.effective_uri # None
            IN IF ~is_success(o.status)
               THEN [done EXCEPT !.result = Some(HttpNotOk(url, o.status, redirected))]
               ELSE IF o.body = None
               THEN [done EXCEPT !.result = Some(FetchError(url, "body"))]
               ELSE [done EXCEPT !.result = Some(SuccessResponse(url, o.body[1], o.status,
                                                                 redirected))]

(***************************************************************************)
(* The fetch operations                                                    *)
(***************************************************************************)
FetchInit ==
    /\ client \in {None, Some("HttpClient")}
    /\ upgrade_to_https \in BOOLEAN
    /\ sandbox \in BOOLEAN
    /\ futures = <<>>

\* NavigatorBackend::fetch: returns a future to the caller
fetch ==
    /\ Len(futures) < MaxFetches
    /\ \E request \in Requests :
          futures' = Append(futures, fetch_future(upgrade_to_https, request))
    /\ UNCHANGED <<client, upgrade_to_https, sandbox, socketVars, schedVars,
                   navVars, urlVars>>

\* whoever holds the future of an unresolvable URL drives it
DriveAsyncReturn ==
    /\ \E i \in 1..Len(futures) :
          /\ futures[i].state = "created"
          /\ futures[i].branch = "async_return"
          /\ futures' = [futures EXCEPT ![i] = drive_async_return(futures[i])]
    /\ UNCHANGED <<client, upgrade_to_https, sandbox, socketVars, schedVars,
                   navVars, urlVars>>

\* whoever holds a file future drives it
DriveFile ==
    /\ \E i \in 1..Len(futures) :
          /\ futures[i].state = "created"
          /\ futures[i].branch = "file"
          /\ LET path == futures[i].url.path
             IN \E r1 \in FsReadOutcomes(path), yes \in BOOLEAN,
                   r2 \in FsReadOutcomes(path) :
                   futures' = [futures EXCEPT
                                  ![i] = drive_file(futures[i], sandbox, r1, yes, r2)]
    /\ UNCHANGED <<client, upgrade_to_https, sandbox, socketVars, schedVars,
                   navVars, urlVars>>

\* whoever holds an http future drives it for the first time
DriveHttp ==
    /\ \E i \in 1..Len(futures) :
          /\ futures[i].state = "created"
          /\ futures[i].branch = "http"
          /\ futures' = [futures EXCEPT ![i] = drive_http(futures[i], client)]
    /\ UNCHANGED <<client, upgrade_to_https, sandbox, socketVars, schedVars,
                   navVars, urlVars>>

\* the client answers and the http future is driven to its end
CompleteHttp ==
    /\ \E i \in 1..Len(futures) :
          /\ futures[i].state = "sent"
          /\ \E o \in HttpAnswers(futures[i].url) :
                futures' = [futures EXCEPT ![i] = complete_http(futures[i], o)]
    /\ UNCHANGED <<client, upgrade_to_https, sandbox, socketVars, schedVars,
                   navVars, urlVars>>

NextFetch ==
    \/ fetch
    \/ DriveAsyncReturn
    \/ DriveFile
    \/ DriveHttp
    \/ CompleteHttp

(***************************************************************************)
(* Properties of spawn_future                                              *)
(***************************************************************************)
\* C4: no operation of the backend ever panics, whatever its collaborators do (the event
\* loop ended, the Receiver of the task queue gone).
C4_NoPanic ==
    ~panicked

\* C5: every spawn_future(task) appends the task to the tail of the queue, then signals
\* the event loop once, runs no task, and returns normally, also when the signal fails.
C5_SpawnEnqueuesThenSignals ==
    [][submitted' # submitted
         => LET task == submitted'[Len(submitted')]
            IN /\ channel' = Append(channel, task)
               /\ \E delivered \in BOOLEAN :
                     sched_log' = sched_log \o <<SendStep(task, TRUE),
                                                 SendEventStep(task, delivered)>>
               /\ driven' = driven
               /\ ~panicked']_vars

(***************************************************************************)
(* Properties of fetch                                                     *)
(***************************************************************************)
Done(fut) ==
    fut.state = "done"

IsFileRequest(fut) ==
    fut.request.url.kind # "malformed" /\ fut.url.scheme = "file"

IsHttpRequest(fut) ==
    fut.request.url.kind # "malformed" /\ fut.url.scheme # "file"

Reads(fut) ==
    {k \in 1..Len(fut.io) : fut.io[k].op = "fs::read"}

Sends(fut) ==
    {k \in 1..Len(fut.io) : fut.io[k].op = "HttpClient::send_async"}

\* C6: fetch reads no file and sends nothing before it returns, in either branch: a
\* future that fetch has returned and that has not been driven has performed no I/O.
C6_NoIoBeforeDriven ==
    \A i \in 1..Len(futures) : futures[i].state = "created" => futures[i].io = <<>>

\* C6 witness: two fetches have returned; the file future that was driven has read, the
\* other futures (a file one or an http one) have not been driven and have done nothing
C6_Witness ==
    \E i, j \in 1..Len(futures) :
        /\ futures[i].state = "created"
        /\ futures[i].branch \in {"file", "http"}
        /\ futures[i].io = <<>>
        /\ Done(futures[j])
        /\ Reads(futures[j]) # {}

\* C7: a driven file fetch reads the path of the URL, without the query; when its
\* (last) read succeeds it succeeds with the bytes of that file; every success of a
\* file fetch has status 0 and redirected false, and its URL is the resolved URL, ending
\* in "?" and the query when the request had one.
C7_FileFetchResult ==
    \A i \in 1..Len(futures) :
        LET fut == futures[i]
            res == fut.result[1]
        IN (IsFileRequest(fut) /\ Done(fut))
             => /\ \A k \in Reads(fut) : fut.io[k].arg = fut.url.path
                /\ (fut.io # <<>> /\ fut.io[Len(fut.io)].op = "fs::read"
                        /\ fut.io[Len(fut.io)].ok)
                     => (res.ok /\ res.body = FileSystem[fut.url.path])
                /\ res.ok
                     => /\ res.status = 0
                        /\ res.redirected = FALSE
                        /\ Reads(fut) # {}
                        /\ res.url = <<"file", "://", fut.url.host, fut.url.path>>
                                        \o (IF fut.url.query = None
                                            THEN <<>>
                                            ELSE <<"?", fut.url.query[1]>>)

\* C7 witness: the fetch of a.swf?x=1 has been driven and has succeeded
C7_Witness ==
    \E i \in 1..Len(futures) :
        /\ IsFileRequest(futures[i])
        /\ futures[i].request.url.query = Some("x=1")
        /\ Done(futures[i])
        /\ futures[i].result[1].ok
        /\ futures[i].result[1].body = <<7, 8>>

\* the http futures that have seen a final response
Responded(fut) ==
    IsHttpRequest(fut) /\ Done(fut) /\ fut.answer # None /\ fut.answer[1].ok

\* C8 as claimed: a final response is a failure exactly when its status is outside
\* 2xx/3xx; a 2xx or 3xx response (whose body can be read) yields a SuccessResponse with
\* the body, any other status an HttpNotOk error with the status and the redirect flag
\* and no body.
C8_Claimed_2xx3xxSucceed ==
    \A i \in 1..Len(futures) :
        LET fut == futures[i]
            res == fut.result[1]
            o == fut.answer[1]
        IN Responded(fut)
             => /\ (res.error = "HttpNotOk") <=> ~(200 <= o.status /\ o.status < 400)
                /\ (200 <= o.status /\ o.status < 400 /\ o.body # None)
                     => (res.ok /\ res.body = o.body[1] /\ res.status = o.status)
                /\ res.error = "HttpNotOk"
                     => (res.status = o.status /\ res.body = <<>>
                            /\ res.redirected = (o.effective_uri # None))

\* C8 as amended: a final response is a failure exactly when its status is outside 2xx;
\* a 2xx response (whose body can be read) yields a SuccessResponse with the body, any
\* other status, 3xx included, an HttpNotOk error with the status and the redirect flag
\* and no body.
C8_StatusClassification ==
    \A i \in 1..Len(futures) :
        LET fut == futures[i]
            res == fut.result[1]
            o == fut.answer[1]
        IN Responded(fut)
             => /\ (res.error = "HttpNotOk") <=> ~(200 <= o.status /\ o.status < 300)
                /\ (200 <= o.status /\ o.status < 300 /\ o.body # None)
                     => (res.ok /\ res.body = o.body[1] /\ res.status = o.status)
                /\ res.error = "HttpNotOk"
                     => (res.status = o.status /\ res.body = <<>>
                            /\ res.redirected = (o.effective_uri # None))

\* C8 witness: a final 304 has been turned into an HttpNotOk error
C8_Witness ==
    \E i \in 1..Len(futures) :
        /\ Responded(futures[i])
        /\ futures[i].answer[1].status = 304
        /\ futures[i].result[1].error = "HttpNotOk"
        /\ futures[i].result[1].status = 304

\* C9: the redirected flag of a success and of an HttpNotOk error is true exactly when
\* the URL the final response came from differs from the requested URL.
C9_RedirectedIffUrlDiffers ==
    \A i \in 1..Len(futures) :
        LET fut == futures[i]
            res == fut.result[1]
            o == fut.answer[1]
        IN (Responded(fut) /\ (res.ok \/ res.error = "HttpNotOk"))
             => (res.redirected <=> (o.final # fut.url))

\* C10: failures found before any I/O cause none: a request whose URL does not resolve
\* ends in an error without a read or a send; an http request made without a client ends
\* in the "Network unavailable" error without a send; an http request with a header that
\* cannot be encoded ends in an error without a send.
C10_EarlyFailuresDoNoIo ==
    \A i \in 1..Len(futures) :
        LET fut == futures[i]
            res == fut.result[1]
        IN /\ fut.request.url.kind = "malformed"
                => (fut.io = <<>> /\ (Done(fut) => ~res.ok))
           /\ (IsHttpRequest(fut) /\ client = None)
                => /\ fut.io = <<>>
                   /\ Done(fut) => (~res.ok /\ res.error = "FetchError"
                                        /\ res.detail = "Network unavailable")
           /\ (IsHttpRequest(fut)
                 /\ \E k \in 1..Len(fut.request.headers) :
                       \/ fut.request.headers[k][1] \in BadHeaderNames
                       \/ fut.request.headers[k][2] \in BadHeaderValues)
                => (Sends(fut) = {} /\ fut.state # "sent" /\ (Done(fut) => ~res.ok))

\* C10 witness: with a client at hand, a request with a header value that cannot be
\* encoded was driven and ended in an error, and a request with a malformed URL too
C10_Witness ==
    /\ client # None
    /\ \E i, j \in 1..Len(futures) :
          /\ IsHttpRequest(futures[i])
          /\ futures[i].request.headers[1][2] \in BadHeaderValues
          /\ Done(futures[i])
          /\ ~futures[i].result[1].ok
          /\ futures[j].request.url.kind = "malformed"
          /\ Done(futures[j])

\* the calls a future made on the consent dialog and on the directory grant
Consents(fut) ==
    {k \in 1..Len(fut.io) : fut.io[k].op = "MessageDialog::show"}

Grants(fut) ==
    {k \in 1..Len(fut.io) : fut.io[k].op = "FileDialog::pick_folder"}

\* C17: permission-failure retry. A driven file fetch shows the consent dialog at most
\* once, and only right after a first read that failed with a permission failure; it
\* asks for the directory grant at most once and only after the dialog answered yes; it
\* reads at most twice, the second time only after the dialog answered yes; and when
\* the first read fails and no consent is granted (the failure is of another kind, the
\* dialog is declined, or the build has no dialog) there is one read and the result is
\* an error that carries the error of that read and the URL of the request.
C17_PermissionRetry ==
    \A i \in 1..Len(futures) :
        LET fut == futures[i]
            res == fut.result[1]
            granted == \E d \in Consents(fut) : fut.io[d].ok
        IN (IsFileRequest(fut) /\ Done(fut) /\ fut.io # <<>>)
             => /\ fut.io[1].op = "fs::read"
                /\ Cardinality(Consents(fut)) <= 1
                /\ Cardinality(Grants(fut)) <= 1
                /\ Cardinality(Reads(fut)) <= 2
                /\ \A d \in Consents(fut) :
                      /\ d = 2
                      /\ ~fut.io[1].ok
                      /\ fut.io[1].err = "PermissionDenied"
                /\ \A g \in Grants(fut) :
                      \E d \in Consents(fut) : d < g /\ fut.io[d].ok
                /\ \A k \in Reads(fut) \ {1} :
                      \E d \in Consents(fut) : d < k /\ fut.io[d].ok
                /\ (~fut.io[1].ok /\ ~granted)
                     => /\ Reads(fut) = {1}
                        /\ Grants(fut) = {}
                        /\ ~res.ok
                        /\ res.error = "FetchError"
                        /\ res.detail = fut.io[1].err
                        /\ res.url = UrlToString(fut.url)
                /\ (~fut.io[1].ok /\ fut.io[1].err # "PermissionDenied")
                     => Consents(fut) = {}

\* C17 witness: one fetch was refused by the filesystem, the user consented and the
\* second read succeeded; another was refused and the user declined, and it failed
\* with the permission failure after a single read
C17_Witness ==
    /\ sandbox
    /\ \E i \in 1..Len(futures) :
          /\ Done(futures[i])
          /\ Len(futures[i].io) = 4
          /\ futures[i].io[1].err = "PermissionDenied"
          /\ futures[i].io[2].op = "MessageDialog::show"
          /\ futures[i].io[2].ok
          /\ futures[i].io[4].op = "fs::read"
          /\ futures[i].result[1].ok
    /\ \E i \in 1..Len(futures) :
          /\ Done(futures[i])
          /\ Len(futures[i].io) = 2
          /\ futures[i].io[2].op = "MessageDialog::show"
          /\ ~futures[i].io[2].ok
          /\ futures[i].result[1].detail = "PermissionDenied"

(***************************************************************************)
(* ExternalNavigatorBackend::navigate_to_url (navigator.rs 80-153)         *)
(***************************************************************************)
\* number of navigate_to_url calls
MaxNavigations ==
    2

OpenURLModes ==
    {"Allow", "Confirm", "Deny"}

\* the url argument of a call: relative to the movie, absolute, or not a URL
NavigationRefs ==
    {Relative("help.html", None),
     Absolute(Url("http", "a.test", "/p", Some("x=1"))),
     Absolute(Url("javascript", "", "alert(1)", None)),
     Malformed}

\* the vars_method argument: none, or the query pairs to add (the method is ignored)
VarsMethods ==
    {None, Some("k=v")}

\* lines 102-116: query_pairs_mut().append_pair for every pair
append_pairs(url, vars_method) ==
    IF vars_method = None
    THEN url
    ELSE [url EXCEPT !.query = IF url.query = None
                               THEN Some(<<vars_method[1]>>)
                               ELSE Some(<<url.query[1], "&", vars_method[1]>>)]

\* entries of a navigation's io: what the call asked of a collaborator
ConfirmDialog(url, ok) ==
    [op |-> "MessageDialog.show", arg |-> UrlToString(url), ok |-> ok]

WebbrowserOpen(url, ok) ==
    [op |-> "webbrowser.open", arg |-> UrlToString(url), ok |-> ok]

\* one call of navigate_to_url as the log keeps it: the arguments, whether the URL
\* was resolved, the URL after the query pairs were added, and the calls made on the
\* dialog and on the launcher, in order
Navigation(ref, vars_method, resolved, url, io) ==
    [ref |-> ref, vars_method |-> vars_method, resolved |-> resolved, url |-> url,
     io |-> io]

\* a mutation: the launcher is called whatever the dialog answered
navigate_to_url_ignores_answer(upgrade, mode, ref, vars_method, confirm, opened) ==
    LET parsed == resolve_url(upgrade, ref)
        modified_url == append_pairs(parsed.url, vars_method)
    IN IF ~parsed.ok
       THEN Navigation(ref, vars_method, FALSE, parsed.url, <<>>)
       ELSE IF modified_url.scheme = "javascript"
       THEN Navigation(ref, vars_method, TRUE, modified_url, <<>>)
       ELSE IF mode = "Confirm"
       THEN Navigation(ref, vars_method, TRUE, modified_url,
                       <<ConfirmDialog(modified_url, confirm),
                         WebbrowserOpen(modified_url, opened)>>)
       ELSE IF mode = "Deny"
       THEN Navigation(ref, vars_method, TRUE, modified_url, <<>>)
       ELSE Navigation(ref, vars_method, TRUE, modified_url,
                       <<WebbrowserOpen(modified_url, opened)>>)

\* navigate_to_url (navigator.rs 80-153): `confirm` is the answer of the dialog and
\* `opened` whether webbrowser::open succeeds, for the calls that are made
navigate_to_url(upgrade, mode, ref, vars_method, confirm, opened) ==
    LET parsed == resolve_url(upgrade, ref)
        modified_url == append_pairs(parsed.url, vars_method)
    IN IF ~parsed.ok
       THEN Navigation(ref, vars_method, FALSE, parsed.url, <<>>)
       ELSE IF modified_url.scheme = "javascript"
       THEN Navigation(ref, vars_method, TRUE, modified_url, <<>>)
       ELSE IF mode = "Confirm"
       THEN IF ~confirm
            THEN Navigation(ref, vars_method, TRUE, modified_url,
                            <<ConfirmDialog(modified_url, FALSE)>>)
            ELSE Navigation(ref, vars_method, TRUE, modified_url,
                            <<ConfirmDialog(modified_url, TRUE),
                              WebbrowserOpen(modified_url, opened)>>)
       ELSE IF mode = "Deny"
       THEN Navigation(ref, vars_method, TRUE, modified_url, <<>>)
       ELSE Navigation(ref, vars_method, TRUE, modified_url,
                       <<WebbrowserOpen(modified_url, opened)>>)

\* ExternalNavigatorBackend::new (navigator.rs 47-76): the options are set once
NavigateInit ==
    /\ open_url_mode \in OpenURLModes
    /\ navigations = <<>>

NavigatorBackend_navigate_to_url ==
    /\ Len(navigations) < MaxNavigations
    /\ \E ref \in NavigationRefs, vars_method \in VarsMethods,
          confirm \in BOOLEAN, opened \in BOOLEAN :
          navigations' = Append(navigations,
                                navigate_to_url(upgrade_to_https, open_url_mode, ref,
                                                vars_method, confirm, opened))
    /\ UNCHANGED <<open_url_mode, socketVars, schedVars, fetchVars, urlVars>>

NextNavigate ==
    NavigatorBackend_navigate_to_url

\* the calls a navigation made on the launcher and on the dialog
Launches(nav) ==
    {i \in 1..Len(nav.io) : nav.io[i].op = "webbrowser.open"}

Dialogs(nav) ==
    {i \in 1..Len(nav.io) : nav.io[i].op = "MessageDialog.show"}

\* the requests navigate_to_url refuses under every policy: a URL that does not
\* resolve (lines 89-100) and a javascript: URL (lines 118-123)
Refused(nav) ==
    ~nav.resolved \/ nav.url.scheme = "javascript"

\* C12 as claimed: under Allow every navigation request reaches the launcher.
C12_Claimed_AllowAlwaysLaunches ==
    open_url_mode = "Allow"
        => \A j \in 1..Len(navigations) : Launches(navigations[j]) # {}

\* C12: open-navigation policy. Under Allow a request reaches the launcher exactly when
\* its URL resolves and is not a javascript: URL, and no dialog is shown; under Deny no
\* request reaches the launcher and no dialog is shown; under Confirm the dialog is
\* shown once for every request that is not refused, the launcher is called only after
\* the dialog of that request answered true, and a declined dialog is the last thing
\* the call does. The launcher is called at most once and with the resolved URL.
C12_OpenUrlPolicy ==
    \A j \in 1..Len(navigations) :
       LET nav == navigations[j]
       IN /\ Cardinality(Launches(nav)) <= 1
          /\ \A i \in Launches(nav) : nav.io[i].arg = UrlToString(nav.url)
          /\ Refused(nav) => nav.io = <<>>
          /\ open_url_mode = "Allow"
               => /\ Dialogs(nav) = {}
                  /\ Launches(nav) # {} <=> ~Refused(nav)
          /\ open_url_mode = "Deny" => nav.io = <<>>
          /\ open_url_mode = "Confirm"
               => /\ ~Refused(nav) => Cardinality(Dialogs(nav)) = 1
                  /\ \A i \in Launches(nav) :
                        \E d \in Dialogs(nav) : d < i /\ nav.io[d].ok
                  /\ \A d \in Dialogs(nav) : ~nav.io[d].ok => Launches(nav) = {}

\* C12 witness: under Confirm one request was declined in the dialog and did not reach
\* the launcher, and another was confirmed and reached it after the dialog
C12_Witness ==
    /\ open_url_mode = "Confirm"
    /\ \E j \in 1..Len(navigations) :
          /\ Dialogs(navigations[j]) = {1}
          /\ ~navigations[j].io[1].ok
          /\ Launches(navigations[j]) = {}
    /\ \E j \in 1..Len(navigations) :
          /\ Dialogs(navigations[j]) = {1}
          /\ navigations[j].io[1].ok
          /\ Launches(navigations[j]) = {2}

(***************************************************************************)
(* ExternalNavigatorBackend::pre_process_url (navigator.rs 308-313)        *)
(* applied over and over to one URL                                        *)
(***************************************************************************)
\* number of applications of pre_process_url to the URL
MaxApplications ==
    2

\* the URLs pre_process_url is applied to (Url keeps schemes in lower case)
UpgradeUrls ==
    {Url(scheme, host, path, query) :
        scheme \in {"http", "https", "file", "ftp", "javascript"},
        host \in {"", "a.test"},
        path \in {"/", "/a.swf"},
        query \in {None, Some("x=1")}}

UpgradeInit ==
    /\ url_original \in UpgradeUrls
    /\ url_current = url_original
    /\ applications = 0

\* one more application: url = self.pre_process_url(url)
ApplyPreProcessUrl ==
    /\ applications < MaxApplications
    /\ url_current' = pre_process_url(upgrade_to_https, url_current)
    /\ applications' = applications + 1
    /\ UNCHANGED <<url_original, socketVars, schedVars, fetchVars, navVars>>

NextUpgrade ==
    ApplyPreProcessUrl

\* C13: upgrade policy. A second application of pre_process_url changes nothing that the
\* first left; with the upgrade option enabled a URL whose scheme is "http" comes out
\* with scheme "https" and the same host, path and query; with the option disabled, or
\* for any other scheme ("https" included), the URL comes out as it went in.
C13_UpgradeIdempotent ==
    [][ApplyPreProcessUrl
         => /\ applications >= 1 => url_current' = url_current
            /\ url_current'.host = url_original.host
            /\ url_current'.path = url_original.path
            /\ url_current'.query = url_original.query
            /\ url_current'.scheme =
                  IF upgrade_to_https /\ url_original.scheme = "http"
                  THEN "https"
                  ELSE url_original.scheme]_vars

\* C13 witness: an http URL with a host, a path and a query was upgraded by the first
\* application and a second application has been made
C13_Witness ==
    /\ upgrade_to_https
    /\ applications = 2
    /\ url_original = Url("http", "a.test", "/a.swf", Some("x=1"))
    /\ url_current = Url("https", "a.test", "/a.swf", Some("x=1"))

(***************************************************************************)
(* Parts of the backend a specification leaves unused                      *)
(***************************************************************************)
\* no socket has been opened
SocketUnused ==
    /\ stream = None
    /\ pending_write = <<>>
    /\ pending_read = <<>>
    /\ wire_in = <<>>
    /\ wire_out = <<>>
    /\ messages = <<>>
    /\ received = <<>>
    /\ sent = <<>>
    /\ last_poll = NeverPolled

\* no fetch has been made
FetchUnused ==
    /\ client = None
    /\ upgrade_to_https = FALSE
    /\ sandbox = FALSE
    /\ futures = <<>>

\* no navigation has been asked for
NavigateUnused ==
    /\ open_url_mode = "Deny"
    /\ navigations = <<>>

\* pre_process_url has been applied to nothing
UpgradeUnused ==
    /\ url_original = base_url
    /\ url_current = base_url
    /\ applications = 0

\* no task has been spawned
SchedUnused ==
    /\ channel = <<>>
    /\ receiver_alive = TRUE
    /\ event_loop_alive = TRUE
    /\ sched_log = <<>>
    /\ submitted = <<>>
    /\ driven = <<>>
    /\ panicked = FALSE

(***************************************************************************)
(* Specifications                                                          *)
(***************************************************************************)
InitSocket ==
    SocketInit /\ SchedUnused /\ FetchUnused /\ NavigateUnused /\ UpgradeUnused

SpecSocket ==
    InitSocket /\ [][NextSocket]_vars

InitSched ==
    SocketUnused /\ SchedInit /\ FetchUnused /\ NavigateUnused /\ UpgradeUnused

SpecSched ==
    InitSched /\ [][NextSched]_vars

InitFetch ==
    SocketUnused /\ SchedUnused /\ FetchInit /\ NavigateUnused /\ UpgradeUnused

SpecFetch ==
    InitFetch /\ [][NextFetch]_vars

\* the options of the backend that navigate_to_url and pre_process_url read
OptionsInit ==
    /\ client = None
    /\ upgrade_to_https \in BOOLEAN
    /\ sandbox = FALSE
    /\ futures = <<>>

InitNavigate ==
    SocketUnused /\ SchedUnused /\ OptionsInit /\ NavigateInit /\ UpgradeUnused

SpecNavigate ==
    InitNavigate /\ [][NextNavigate]_vars

InitUpgrade ==
    SocketUnused /\ SchedUnused /\ OptionsInit /\ NavigateUnused /\ UpgradeInit

SpecUpgrade ==
    InitUpgrade /\ [][NextUpgrade]_vars

====
